---- MODULE Spec2Model ----
(***************************************************************************)
(* A model of the dreamwish omnichannel backend: the relational records    *)
(* (customers, conversations, messages, users, business hours), the        *)
(* inbound message pipeline of the channel webhooks and of the web widget, *)
(* the agent assignment service, the business-hours service and the        *)
(* WebSocket connection managers.                                          *)
(*                                                                         *)
(* Handlers are coroutines on one event loop: the database session is      *)
(* synchronous, so a handler runs atomically between two awaits.  Each     *)
(* await of an outside collaborator (the AI generator, a WebSocket send)   *)
(* is a step boundary of the model.                                        *)
(***************************************************************************)
EXTENDS Integers, Sequences, FiniteSets, TLC

VARIABLES
    customers,        \* table customers: Seq of records, id = index
    conversations,    \* table conversations: Seq of records, id = index
    messages,         \* table messages: Seq of records, id = index
    users,            \* table users: function id -> record
    business_hours,   \* table business_hours: set of records
    clock,            \* datetime.utcnow(), a logical time
    jobs,             \* in-flight inbound requests suspended at an await
    main_manager,     \* active_connections of main.py's ConnectionManager
    ws_manager,       \* active_connections of websocket.py's ConnectionManager
    sockets,          \* each WebSocket channel: its state and its client id
    tasks,            \* broadcasts suspended at a send: their iterators
    sent,             \* the send_text calls of the last step: records
    ret               \* what the step returned, when it was a call of a service

vars == <<customers, conversations, messages, users, business_hours, clock,
          jobs, main_manager, ws_manager, sockets, tasks, sent, ret>>

dbVars == <<customers, conversations, messages>>

----------------------------------------------------------------------------
(* Bounds of the model *)

MaxMessages == 3
MaxConversations == 2
MaxClock == 3
NumJobs == 2

----------------------------------------------------------------------------
(* Inputs *)

None == 0

\* Message texts are sequences of words.  The Korean keywords of the source
\* are written in romanised form: annyeong = 안녕, bangbeop = 방법,
\* gyeyak = 계약, sosong = 소송, sangdamwon = 상담원.
Blank == " "

simple_keywords ==
    {"annyeong", "sayongbeop", "bangbeop", "gineung", "chaeneol", "yeondong",
     "wijet", "daesibodeu", "timwon", "chodae", "gaip", "login"}

complex_keywords ==
    {"gyeyak", "beopryul", "sosong", "gingeup", "sangdamwon", "jikjeop"}

Texts ==
    { <<>>, <<Blank>>, <<"annyeong">>, <<"gyeyak">> }

ExternalIds == {"u1"}
WebhookPlatforms == {"kakao"}
AssignPlatforms == {"kakao", "instagram"}
Names == {"kim"}

\* bool(str): a Python string is truthy iff it is not empty; a text is a
\* sequence of words, an identifier or a name is a TLA+ string
Truthy(text) == text # <<>>
StrTruthy(str) == str # ""

\* str.strip() == "": every character is whitespace
IsBlank(text) == \A i \in 1..Len(text) : text[i] = Blank

\* any(keyword in message for keyword in keywords)
ContainsAny(text, keywords) == \E i \in 1..Len(text) : text[i] \in keywords

----------------------------------------------------------------------------
(* Business hours service *)

Days == {0, 5}
\* wall-clock times of day, in seconds since midnight
TimesOfDay == {8 * 3600 + 59 * 60, 9 * 3600, 18 * 3600, 18 * 3600 + 1}

\* datetime.strptime(s, "%H:%M").time(), s written <<hours, minutes>>
ParseTime(s) == s[1] * 3600 + s[2] * 60

\* create_default_business_hours: Monday-Friday 09:00-18:00, weekend inactive
DefaultBusinessHours ==
    [day_of_week : 0..4, open_time : {<<9, 0>>}, close_time : {<<18, 0>>},
     is_active : {TRUE}]
    \cup
    [day_of_week : 5..6, open_time : {<<0, 0>>}, close_time : {<<0, 0>>},
     is_active : {FALSE}]

\* the query of is_business_hours: the rows of the day that are active; the
\* variant leaves out the filter on the day
TodaysRecordsMutant(bh, current_day) == {r \in bh : r.is_active}
TodaysRecords(bh, current_day) ==
    {r \in bh : r.day_of_week = current_day /\ r.is_active}

\* open_time <= current_time <= close_time; the variant closes at close_time
WithinHoursMutant(open_time, current_time, close_time) ==
    open_time <= current_time /\ current_time < close_time
WithinHours(open_time, current_time, close_time) ==
    open_time <= current_time /\ current_time <= close_time

is_business_hours(bh, current_day, current_time) ==
    LET found == TodaysRecords(bh, current_day)
    IN  IF found = {} THEN TRUE
        ELSE LET business_hour == CHOOSE r \in found : TRUE
             IN  WithinHours(ParseTime(business_hour.open_time), current_time,
                             ParseTime(business_hour.close_time))

----------------------------------------------------------------------------
(* Agent assignment service *)

Agents == {1, 2}

\* count of conversations with assigned_agent_id = agent and status "open";
\* the variant counts the connected ones
current_chatsMutant(convs, agent) ==
    Cardinality({i \in DOMAIN convs :
        convs[i].assigned_agent_id = agent /\ convs[i].status = "connected"})
current_chats(convs, agent) ==
    Cardinality({i \in DOMAIN convs :
        convs[i].assigned_agent_id = agent /\ convs[i].status = "open"})

\* the max_concurrent_chats check of get_available_agents; the variant lets
\* an agent at capacity through
UnderCapacityMutant(load, capacity) == load <= capacity
UnderCapacity(load, capacity) == load < capacity

\* the agents query: role, is_active, status and auto_assign filters; the
\* variant leaves out the filter on auto_assign
AgentFilterMutant(us, a) ==
    /\ us[a].role = "agent"
    /\ us[a].is_active
    /\ us[a].status = "online"
AgentFilter(us, a) ==
    /\ us[a].role = "agent"
    /\ us[a].is_active
    /\ us[a].status = "online"
    /\ us[a].auto_assign

\* list.sort(key = current_load): a stable insertion sort
RECURSIVE InsertByLoad(_, _)
InsertByLoad(sorted, item) ==
    IF sorted = <<>> THEN <<item>>
    ELSE IF sorted[Len(sorted)].current_load <= item.current_load
         THEN Append(sorted, item)
         ELSE Append(InsertByLoad(SubSeq(sorted, 1, Len(sorted) - 1), item),
                     sorted[Len(sorted)])

RECURSIVE SortByLoad(_)
SortByLoad(list) ==
    IF list = <<>> THEN <<>>
    ELSE InsertByLoad(SortByLoad(SubSeq(list, 1, Len(list) - 1)), list[Len(list)])

\* the agents of the pool in the order of the query (by id)
RECURSIVE AvailableFrom(_, _, _)
AvailableFrom(us, convs, a) ==
    IF a \notin DOMAIN us THEN <<>>
    ELSE LET rest == AvailableFrom(us, convs, a + 1)
             load == current_chats(convs, a)
         IN  IF AgentFilter(us, a) /\ UnderCapacity(load, us[a].max_concurrent_chats)
             THEN <<[agent |-> a, current_load |-> load,
                     capacity |-> us[a].max_concurrent_chats]>> \o rest
             ELSE rest

get_available_agents(us, convs) == SortByLoad(AvailableFrom(us, convs, 1))

\* TRUE when assign_agent_to_conversation returns at "already assigned"; the
\* variant never returns there
AlreadyAssignedMutant(conv) == FALSE
AlreadyAssigned(conv) == conv.assigned_agent_id # None

\* if not available_agents: return False; the variant reports success
NoAgentResultMutant(convs) == [ok |-> TRUE, convs |-> convs]
NoAgentResult(convs) == [ok |-> FALSE, convs |-> convs]

\* selected = available_agents[0]; the variant takes the last of the list
SelectedMutant(available_agents) == available_agents[Len(available_agents)]
Selected(available_agents) == available_agents[1]

\* assign_agent_to_conversation: the conversations after it, and its result
assign_agent_to_conversation(us, convs, conversation_id, now) ==
    IF conversation_id \notin DOMAIN convs
    THEN [ok |-> FALSE, convs |-> convs]
    ELSE IF AlreadyAssigned(convs[conversation_id])
    THEN [ok |-> TRUE, convs |-> convs]
    ELSE LET available_agents == get_available_agents(us, convs)
         IN  IF available_agents = <<>>
             THEN NoAgentResult(convs)
             ELSE [ok |-> TRUE,
                   convs |-> [convs EXCEPT ![conversation_id] =
                       [@ EXCEPT !.assigned_agent_id = Selected(available_agents).agent,
                                 !.assigned_at = now,
                                 !.status = "open"]]]

\* the user query of reassign_agent: id and role; the variant also asks for
\* auto_assign
FindAgentMutant(us, new_agent_id) ==
    {a \in DOMAIN us : a = new_agent_id /\ us[a].role = "agent" /\ us[a].auto_assign}
FindAgent(us, new_agent_id) ==
    {a \in DOMAIN us : a = new_agent_id /\ us[a].role = "agent"}

\* reassign_agent: the conversations after it, and its result
reassign_agent(us, convs, conversation_id, new_agent_id, now) ==
    IF conversation_id \notin DOMAIN convs
    THEN [ok |-> FALSE, convs |-> convs]
    ELSE IF FindAgent(us, new_agent_id) = {}
    THEN [ok |-> FALSE, convs |-> convs]
    ELSE [ok |-> TRUE,
          convs |-> [convs EXCEPT ![conversation_id] =
              [@ EXCEPT !.assigned_agent_id = new_agent_id,
                        !.assigned_at = now]]]

\* BusinessHoursService.should_auto_respond; the variant does not look at
\* the agents
hours_should_auto_respondMutant(bh, us, convs, day, tod) ==
    ~is_business_hours(bh, day, tod)
hours_should_auto_respond(bh, us, convs, day, tod) ==
    IF ~is_business_hours(bh, day, tod) THEN TRUE
    ELSE get_available_agents(us, convs) = <<>>

\* OllamaChatbot.should_auto_respond
ollama_should_auto_respond(message) == ContainsAny(message, simple_keywords)

----------------------------------------------------------------------------
(* Connection manager (websocket.py), used by both instances *)

AgentClients == {<<"agent_", "1">>, <<"agent_", "2">>}
WidgetClients == {<<"widget_", "u1">>}

\* a client id is <<prefix, rest>>; NoClient stands where there is none (the
\* default None of exclude_client)
NoClient == <<"", "">>

\* client_id.startswith("agent_")
StartsWithAgent(client_id) == client_id[1] = "agent_"

\* active_connections is a dict: its entries stay in insertion order, a
\* deleted entry leaves a hole in the entry table, and the table is rebuilt
\* without its holes when an insertion finds it full.  DictUsable is the
\* number of entries the table of a small dict takes.
DictUsable == 5
Tombstone == [client_id |-> NoClient, websocket |-> None]

LiveEntries(conns) == SelectSeq(conns, LAMBDA e : e # Tombstone)

Keys(conns) == {conns[i].client_id : i \in DOMAIN conns} \ {Tombstone.client_id}

\* client_id in active_connections; the variant looks the client up without
\* the membership test
RegisteredMutant(conns, client_id) == TRUE
Registered(conns, client_id) == client_id \in Keys(conns)

\* active_connections[client_id]; None stands for the KeyError of a missing key
Lookup(conns, client_id) ==
    IF client_id \in Keys(conns)
    THEN conns[CHOOSE i \in DOMAIN conns : conns[i].client_id = client_id].websocket
    ELSE None

\* active_connections[client_id] = websocket: an assignment to a present key
\* keeps the key's place, a new key goes to the end
connect(conns, websocket, client_id) ==
    LET entry == [client_id |-> client_id, websocket |-> websocket]
    IN  IF client_id \in Keys(conns)
        THEN [i \in DOMAIN conns |->
                IF conns[i].client_id = client_id THEN entry ELSE conns[i]]
        ELSE IF Len(conns) >= DictUsable
             THEN Append(LiveEntries(conns), entry)
             ELSE Append(conns, entry)

\* if client_id in active_connections: del active_connections[client_id]
disconnect(conns, client_id) ==
    [i \in DOMAIN conns |->
        IF conns[i].client_id = client_id THEN Tombstone ELSE conns[i]]

\* the clients broadcast_to_agents sends to; the variant leaves out the
\* prefix test
AgentRecipientMutant(client_id, exclude_client) == client_id # exclude_client
AgentRecipient(client_id, exclude_client) ==
    client_id # exclude_client /\ StartsWithAgent(client_id)

\* the entries a pass sends to: broadcast sends to every entry,
\* broadcast_to_agents to the agents other than the excluded one
Recipient(method, client_id, exclude_client) ==
    IF method = "broadcast" THEN TRUE
    ELSE AgentRecipient(client_id, exclude_client)

\* try: await connection.send_text(message) / except Exception: print(...):
\* whether the loop of a broadcast goes on after a send; the variant has no
\* try around the send
LoopGoesOnMutant(delivered) == delivered
LoopGoesOn(delivered) == IF delivered THEN TRUE ELSE TRUE

\* one send_text attempted on the connection of an entry; the send fails
\* unless the channel is open
SendRecord(name, entry, payload) ==
    [manager |-> name, client_id |-> entry.client_id,
     websocket |-> entry.websocket, payload |-> payload,
     delivered |-> sockets[entry.websocket].state = "open"]

\* what a pass of broadcast_to_agents over conns sends when nothing changes
\* conns during the pass
BroadcastToAgentsSends(name, conns, exclude_client, payload) ==
    {SendRecord(name, conns[i], payload) :
        i \in {k \in DOMAIN conns : /\ conns[k] # Tombstone
                                    /\ AgentRecipient(conns[k].client_id, exclude_client)}}

\* the for loop of a broadcast from entry pos on, until its body
\* awaits a send: the dict iterator skips the holes, stops at the end of the
\* table, and raises RuntimeError when it finds more entries than the dict
\* had when the loop began
RECURSIVE IterRun(_, _, _, _, _)
IterRun(conns, pos, len, method, exclude_client) ==
    LET live == {i \in pos..Len(conns) : conns[i] # Tombstone}
    IN  IF live = {}
        THEN [kind |-> "stop", pos |-> pos, len |-> len]
        ELSE LET i == CHOOSE x \in live : \A y \in live : x <= y
             IN  IF len = 0
                 THEN [kind |-> "error", pos |-> pos, len |-> len]
                 ELSE IF Recipient(method, conns[i].client_id, exclude_client)
                      THEN [kind |-> "send", pos |-> i + 1, len |-> len - 1]
                      ELSE IterRun(conns, i + 1, len - 1, method, exclude_client)

----------------------------------------------------------------------------
(* Inbound pipeline: process_incoming_message and the webhook handlers *)

\* a request suspended at its await of the AI generator: its local variables
Job(path, conversation_id, message_id) ==
    [path |-> path, conversation_id |-> conversation_id, message_id |-> message_id]

\* ret after a step that was not a call of the assignment service
NoRet == [op |-> "none", ok |-> FALSE, conversation_id |-> None,
          client_id |-> NoClient]

\* the rows a query on (external_id, platform) finds; the variant filters on
\* the widget's platform whatever the platform asked for
FindCustomersMutant(custs, external_id, platform) ==
    {i \in DOMAIN custs :
        custs[i].external_id = external_id /\ custs[i].platform = "widget"}
FindCustomers(custs, external_id, platform) ==
    {i \in DOMAIN custs :
        custs[i].external_id = external_id /\ custs[i].platform = platform}

\* the filter of the webhook's conversation query
WebhookConvFilter(conv, customer_id, platform) ==
    /\ conv.customer_id = customer_id
    /\ conv.channel_type = platform

NewConversation(customer_id, channel_type, name) ==
    [customer_id |-> customer_id, channel_type |-> channel_type,
     status |-> "open", assigned_agent_id |-> None, assigned_at |-> None,
     unread_count |-> 0, last_message_at |-> None, profile_name |-> name]

\* the place of a conversation row, and of a message row, that was deleted:
\* the ids of the rows that remain do not change
DeletedConversation ==
    [customer_id |-> None, channel_type |-> "", status |-> "deleted",
     assigned_agent_id |-> None, assigned_at |-> None, unread_count |-> 0,
     last_message_at |-> None, profile_name |-> ""]
DeletedMessage ==
    [conversation_id |-> None, sender_type |-> "deleted", content |-> <<>>,
     status |-> "deleted"]

\* db.query(Conversation).filter(Conversation.id == conversation_id).first()
\* finds a row
ConversationExists(convs, conversation_id) ==
    /\ conversation_id \in DOMAIN convs
    /\ convs[conversation_id] # DeletedConversation

\* name and str(x.name) != name
NameChanged(old, name) == StrTruthy(name) /\ old # name

\* what json.dumps({... "type": "new_customer_message" ...}) carries
NewCustomerMessage(conversation_id, message_id, ai_responded) ==
    [type |-> "new_customer_message", conversation_id |-> conversation_id,
     message_id |-> message_id, ai_responded |-> ai_responded]

\* the agent clients registered through the agent endpoint of main.py
RegisteredAgents == {c \in Keys(main_manager) : StartsWithAgent(c)}

\* "ai_responded": ai_response is not None
AiResponded(ai_response) == ai_response # "None"

\* step 6 and the return of process_incoming_message: the broadcast goes to
\* the manager of websocket.py; before holds what the handler sent earlier
Finish(before, conversation_id, message_id, ai_response) ==
    LET payload == NewCustomerMessage(conversation_id, message_id,
                                      AiResponded(ai_response))
    IN  /\ sent' = before \cup BroadcastToAgentsSends("ws", ws_manager, NoClient, payload)
        /\ ret' = NoRet

\* process_incoming_message, steps 1 to 4 (lines 37-118): the customer, the
\* conversation and the message of an inbound message
WebhookStore(platform, external_id, name, text) ==
    /\ StrTruthy(external_id) /\ Truthy(text)
    /\ clock < MaxClock
    /\ Len(messages) < MaxMessages
    /\ LET found == FindCustomers(customers, external_id, platform)
       IN  \E c \in (IF found = {} THEN {Len(customers) + 1} ELSE found) :
           LET customers1 ==
                   IF found = {}
                   THEN Append(customers,
                            [external_id |-> external_id, platform |-> platform,
                             name |-> IF StrTruthy(name) THEN name ELSE "user"])
                   ELSE IF NameChanged(customers[c].name, name)
                        THEN [customers EXCEPT ![c].name = name]
                        ELSE customers
               convFound == {i \in DOMAIN conversations :
                               WebhookConvFilter(conversations[i], c, platform)}
           IN  \E k \in (IF convFound = {} THEN {Len(conversations) + 1} ELSE convFound) :
               LET now == clock + 1
                   convs1 ==
                       IF convFound = {}
                       THEN assign_agent_to_conversation(users,
                                Append(conversations, NewConversation(c, platform, name)),
                                k, now).convs
                       ELSE IF NameChanged(conversations[k].profile_name, name)
                            THEN [conversations EXCEPT ![k].profile_name = name]
                            ELSE conversations
               IN  /\ convFound = {} => Len(conversations) < MaxConversations
                   /\ customers' = customers1
                   /\ conversations' = [convs1 EXCEPT ![k].last_message_at = now,
                                                      ![k].unread_count = @ + 1]
                   /\ messages' = Append(messages,
                                    [conversation_id |-> k, sender_type |-> "customer",
                                     content |-> text, status |-> "sent"])
                   /\ clock' = now

\* process_incoming_message up to its first await (lines 37-138): after the
\* records, the decision, taken on what was just stored
WebhookStart(platform, external_id, name, text, day, tod) ==
    /\ Cardinality(jobs) < NumJobs
    /\ WebhookStore(platform, external_id, name, text)
    /\ LET message_id == Len(messages')
           k == messages'[message_id].conversation_id
           decision ==
               \/ hours_should_auto_respond(business_hours, users, conversations',
                                            day, tod)
               \/ ollama_should_auto_respond(text)
       IN  IF decision
           THEN /\ jobs' = jobs \cup {Job("webhook", k, message_id)}
                /\ ret' = NoRet
                /\ sent' = {}
           ELSE /\ Finish({}, k, message_id, "None")
                /\ UNCHANGED jobs
    /\ UNCHANGED <<users, business_hours, main_manager, ws_manager, sockets, tasks>>

\* what OllamaChatbot.get_response returns: the answer (which may be empty
\* after strip), or one of its two apologies
OllamaResponses == {"answer", "", "error"}

\* process_incoming_message from the return of get_response (lines 140-184)
WebhookAi(j, ai_response) ==
    /\ j \in jobs /\ j.path = "webhook"
    /\ LET msgs1 == IF ai_response # ""
                    THEN Append(messages,
                            [conversation_id |-> j.conversation_id,
                             sender_type |-> "bot", content |-> <<ai_response>>,
                             status |-> "sent"])
                    ELSE messages
       IN  /\ ai_response # "" => Len(messages) < MaxMessages
           /\ messages' = msgs1
           /\ Finish({}, j.conversation_id, j.message_id, ai_response)
           /\ jobs' = jobs \ {j}
    /\ UNCHANGED <<customers, conversations, users, business_hours, clock,
                   main_manager, ws_manager, sockets, tasks>>

\* a webhook handler whose "if user_id and user_message" fails
WebhookSkip(platform, external_id, text) ==
    /\ ~(StrTruthy(external_id) /\ Truthy(text))
    /\ ret' = NoRet
    /\ sent' = {}
    /\ UNCHANGED <<customers, conversations, messages, users, business_hours,
                   clock, jobs, main_manager, ws_manager, sockets, tasks>>

----------------------------------------------------------------------------
(* Web widget: send_widget_message *)

\* the filter of the widget's conversation query; the variant looks among the
\* closed conversations
WidgetConvFilterMutant(conv, customer_id) ==
    conv.customer_id = customer_id /\ conv.status = "closed"
WidgetConvFilter(conv, customer_id) ==
    conv.customer_id = customer_id /\ conv.status = "open"

\* send_widget_message up to its await of the AI generator (lines 55-124)
WidgetStart(external_id, name, text) ==
    /\ Cardinality(jobs) < NumJobs
    /\ Len(messages) < MaxMessages
    /\ LET found == FindCustomers(customers, external_id, "widget")
       IN  \E c \in (IF found = {} THEN {Len(customers) + 1} ELSE found) :
           LET customers1 ==
                   IF found = {}
                   THEN Append(customers,
                            [external_id |-> external_id, platform |-> "widget",
                             name |-> IF StrTruthy(name) THEN name ELSE "guest"])
                   ELSE customers
               convFound == {i \in DOMAIN conversations :
                               WidgetConvFilter(conversations[i], c)}
           IN  \E k \in (IF convFound = {} THEN {Len(conversations) + 1} ELSE convFound) :
               /\ convFound = {} => Len(conversations) < MaxConversations
               /\ customers' = customers1
               /\ conversations' =
                      IF convFound = {}
                      THEN Append(conversations,
                               NewConversation(c, "widget", customers1[c].name))
                      ELSE conversations
               /\ messages' = Append(messages,
                      [conversation_id |-> k, sender_type |-> "customer",
                       content |-> text, status |-> "sent"])
               /\ jobs' = jobs \cup {Job("widget", k, Len(messages) + 1)}
    /\ ret' = NoRet
    /\ sent' = {}
    /\ UNCHANGED <<users, business_hours, clock, main_manager, ws_manager,
                   sockets, tasks>>

\* what the try block around get_response_with_context leaves in ai_response:
\* None when it raised, else the answer or one of the generator's apologies
WidgetResponses == {"None", "answer", "error"}

\* send_widget_message from the return of the generator (lines 126-171)
WidgetAi(j, ai_response) ==
    /\ j \in jobs /\ j.path = "widget"
    /\ LET msgs1 == IF ai_response # "None"
                    THEN Append(messages,
                            [conversation_id |-> j.conversation_id,
                             sender_type |-> "bot", content |-> <<ai_response>>,
                             status |-> "sent"])
                    ELSE messages
           widget_id == <<"widget_",
                          customers[conversations[j.conversation_id].customer_id].external_id>>
           direct == ai_response # "None" /\ widget_id \in Keys(ws_manager)
           websocket == Lookup(ws_manager, widget_id)
           toWidget == IF direct
                       THEN {SendRecord("ws",
                                [client_id |-> widget_id, websocket |-> websocket],
                                [type |-> "agent_message"])}
                       ELSE {}
       IN  /\ ai_response # "None" => Len(messages) < MaxMessages
           /\ messages' = msgs1
           /\ IF direct /\ sockets[websocket].state # "open"
              THEN \* the send to the widget raises: the request fails here
                   /\ sent' = toWidget
                   /\ ret' = NoRet
              ELSE Finish(toWidget, j.conversation_id, j.message_id, ai_response)
           /\ jobs' = jobs \ {j}
    /\ UNCHANGED <<customers, conversations, users, business_hours, clock,
                   main_manager, ws_manager, sockets, tasks>>

----------------------------------------------------------------------------
(* The older widget endpoint: POST /api/widget-message of routers/chat.py *)

\* widget_message: the conversation of the customer, whatever its status and
\* channel, or a new one; the message; the broadcast to the agents
chat_widget_message(customer_id, content) ==
    /\ customer_id \in DOMAIN customers
    /\ Len(messages) < MaxMessages
    /\ LET convFound == {i \in DOMAIN conversations :
                            conversations[i].customer_id = customer_id}
       IN  \E k \in (IF convFound = {} THEN {Len(conversations) + 1} ELSE convFound) :
           /\ convFound = {} => Len(conversations) < MaxConversations
           /\ conversations' =
                  IF convFound = {}
                  THEN Append(conversations, NewConversation(customer_id, "widget", ""))
                  ELSE conversations
           /\ messages' = Append(messages,
                  [conversation_id |-> k, sender_type |-> "customer",
                   content |-> content, status |-> "sent"])
           /\ sent' = BroadcastToAgentsSends("ws", ws_manager, NoClient,
                          [type |-> "new_message", conversation_id |-> k])
    /\ ret' = NoRet
    /\ UNCHANGED <<customers, users, business_hours, clock, jobs, main_manager,
                   ws_manager, sockets, tasks>>

----------------------------------------------------------------------------
(* Conversations, customers and agents: the REST handlers *)

Statuses == {"online", "offline"}

SystemMessage(conversation_id, what) ==
    [conversation_id |-> conversation_id, sender_type |-> "system",
     content |-> <<what>>, status |-> "sent"]

\* POST /api/agent/status
update_agent_status(a, status) ==
    /\ users[a].status # status
    /\ users' = [users EXCEPT ![a].status = status]
    /\ sent' = BroadcastToAgentsSends("ws", ws_manager, NoClient,
                            [type |-> "agent_status_changed", agent_id |-> a])
    /\ ret' = NoRet
    /\ UNCHANGED <<customers, conversations, messages, business_hours, clock,
                   jobs, main_manager, ws_manager, sockets, tasks>>

\* POST /conversations/{id}/connect
connect_conversation(conversation_id, user) ==
    /\ ConversationExists(conversations, conversation_id)
    /\ Len(messages) < MaxMessages
    /\ conversations' = [conversations EXCEPT ![conversation_id].status = "connected"]
    /\ messages' = Append(messages, SystemMessage(conversation_id, "connected"))
    /\ sent' =
          IF conversations[conversation_id].channel_type = "widget"
          THEN BroadcastToAgentsSends("ws", ws_manager, NoClient,
                   [type |-> "agent_reply_sent", conversation_id |-> conversation_id])
          ELSE {}
    /\ ret' = NoRet
    /\ UNCHANGED <<customers, users, business_hours, clock, jobs, main_manager,
                   ws_manager, sockets, tasks>>

\* POST /conversations/{id}/end
end_conversation(conversation_id) ==
    /\ ConversationExists(conversations, conversation_id)
    /\ Len(messages) < MaxMessages
    /\ conversations' = [conversations EXCEPT ![conversation_id].status = "closed"]
    /\ messages' = Append(messages, SystemMessage(conversation_id, "ended"))
    /\ sent' = BroadcastToAgentsSends("ws", ws_manager, NoClient,
                   [type |-> "conversation_updated", conversation_id |-> conversation_id])
    /\ ret' = NoRet
    /\ UNCHANGED <<customers, users, business_hours, clock, jobs, main_manager,
                   ws_manager, sockets, tasks>>

\* POST /webhook/kakao with a leave or end_chat event
kakao_leave(user_id) ==
    /\ StrTruthy(user_id)
    /\ LET found == {i \in DOMAIN conversations :
                        /\ conversations[i].status = "open"
                        /\ customers[conversations[i].customer_id].external_id = user_id
                        /\ customers[conversations[i].customer_id].platform = "kakao"}
       IN  /\ found # {}
           /\ \E k \in found :
                /\ conversations' = [conversations EXCEPT ![k].status = "closed"]
                /\ sent' = BroadcastToAgentsSends("ws", ws_manager, NoClient,
                       [type |-> "conversation_ended", conversation_id |-> k])
                /\ ret' = NoRet
    /\ UNCHANGED <<customers, messages, users, business_hours, clock, jobs,
                   main_manager, ws_manager, sockets, tasks>>

\* AgentAssignmentService.assign_agent_to_conversation, called on its own
AssignToConversation(conversation_id) ==
    /\ clock < MaxClock
    /\ LET r == assign_agent_to_conversation(users, conversations, conversation_id,
                                             clock + 1)
       IN  /\ conversations' = r.convs
           /\ ret' = [NoRet EXCEPT !.op = "assign", !.ok = r.ok,
                                   !.conversation_id = conversation_id]
    /\ clock' = clock + 1
    /\ sent' = {}
    /\ UNCHANGED <<customers, messages, users, business_hours, jobs,
                   main_manager, ws_manager, sockets, tasks>>

\* POST /customers
create_customer(external_id, platform, name) ==
    /\ FindCustomers(customers, external_id, platform) = {}
    /\ customers' = Append(customers, [external_id |-> external_id,
                                       platform |-> platform, name |-> name])
    /\ ret' = NoRet
    /\ sent' = {}
    /\ UNCHANGED <<conversations, messages, users, business_hours, clock, jobs,
                   main_manager, ws_manager, sockets, tasks>>

\* BusinessHoursService.create_default_business_hours
create_default_business_hours ==
    /\ business_hours = {}
    /\ business_hours' = DefaultBusinessHours
    /\ ret' = NoRet
    /\ sent' = {}
    /\ UNCHANGED <<customers, conversations, messages, users, clock, jobs,
                   main_manager, ws_manager, sockets, tasks>>

----------------------------------------------------------------------------
(* The WebSocket endpoints of main.py and the calls of its manager *)

MaxSockets == 3
MaxTasks == 1
Sockets == 1..MaxSockets
ClosedSocket == [state |-> "closed", client_id |-> NoClient]

\* the client that opens connection s: each client opens connections of its
\* own, the first client a second one
ClientOrder == <<<<"agent_", "1">>, <<"agent_", "2">>, <<"widget_", "u1">>>>
SocketClient(s) == ClientOrder[((s - 1) % Len(ClientOrder)) + 1]

\* a socket no connection and no registry entry refers to
Unreferenced(s) ==
    /\ sockets[s].state = "closed"
    /\ \A i \in DOMAIN main_manager : main_manager[i].websocket # s

\* the broadcasts in flight, once the registry is no longer what it was
\* when they began
Disturbed(ts) == [i \in DOMAIN ts |-> [ts[i] EXCEPT !.undisturbed = FALSE]]

\* the broadcasts in flight, once client_id has been unregistered
Left(ts, client_id) ==
    [i \in DOMAIN ts |-> [ts[i] EXCEPT !.undisturbed = FALSE,
                                      !.stayed = @ \ {client_id}]]

\* agent_websocket / widget_websocket on a new connection s of client_id:
\* manager.connect accepts it and registers it under client_id
WsAccept(s, client_id) ==
    /\ Unreferenced(s)
    /\ sockets' = [sockets EXCEPT ![s] = [state |-> "open", client_id |-> client_id]]
    /\ main_manager' = connect(main_manager, s, client_id)
    /\ tasks' = Disturbed(tasks)
    /\ ret' = NoRet
    /\ sent' = {}
    /\ UNCHANGED <<customers, conversations, messages, users, business_hours,
                   clock, jobs, ws_manager>>

\* a client opens the connections that are its own
WsConnect(s, client_id) ==
    /\ client_id = SocketClient(s)
    /\ WsAccept(s, client_id)

\* the peer goes away: the channel fails from now on
WsBreak(s) ==
    /\ sockets[s].state = "open"
    /\ sockets' = [sockets EXCEPT ![s].state = "broken"]
    /\ ret' = NoRet
    /\ sent' = {}
    /\ UNCHANGED <<customers, conversations, messages, users, business_hours,
                   clock, jobs, main_manager, ws_manager, tasks>>

\* receive_text raises WebSocketDisconnect: manager.disconnect(client_id)
WsDisconnect(s) ==
    /\ sockets[s].state \in {"open", "broken"}
    /\ sockets' = [sockets EXCEPT ![s] = ClosedSocket]
    /\ main_manager' = disconnect(main_manager, sockets[s].client_id)
    /\ tasks' = IF main_manager' = main_manager THEN tasks
                ELSE Left(tasks, sockets[s].client_id)
    /\ ret' = NoRet
    /\ sent' = {}
    /\ UNCHANGED <<customers, conversations, messages, users, business_hours,
                   clock, jobs, ws_manager>>

\* what a caller's message carries: a message to one client or to the
\* agents, and the new_message that send_message broadcasts to everyone
Payload == [type |-> "message"]
NewMessagePayload == [type |-> "new_message"]
PayloadOf(method) == IF method = "broadcast" THEN NewMessagePayload ELSE Payload

\* manager.send_personal_message(message, client_id): the send is not guarded,
\* what it raises reaches the caller
send_personal_message(client_id) ==
    /\ IF Registered(main_manager, client_id)
       THEN LET websocket == Lookup(main_manager, client_id)
                raised == IF websocket = None THEN TRUE
                          ELSE sockets[websocket].state # "open"
            IN  /\ sent' = IF websocket = None THEN {}
                           ELSE {SendRecord("main",
                                    [client_id |-> client_id, websocket |-> websocket],
                                    Payload)}
                /\ ret' = [NoRet EXCEPT !.op = "send_personal_message",
                                        !.ok = ~raised, !.client_id = client_id]
       ELSE /\ sent' = {}
            /\ ret' = [NoRet EXCEPT !.op = "send_personal_message",
                                    !.ok = TRUE, !.client_id = client_id]
    /\ UNCHANGED <<customers, conversations, messages, users, business_hours,
                   clock, jobs, main_manager, ws_manager, sockets, tasks>>

\* seq without its i-th element
RemoveAt(seq, i) == SubSeq(seq, 1, i - 1) \o SubSeq(seq, i + 1, Len(seq))

\* broadcast t, the i-th of tasks (or a call just made, not yet among them),
\* runs from iterator position t.di_pos to its next await, or to its end
BroadcastRun(t, i) ==
    IF t.di_used # Cardinality(Keys(main_manager))
    THEN \* RuntimeError: dictionary changed size during iteration
         /\ tasks' = IF i \in DOMAIN tasks THEN RemoveAt(tasks, i) ELSE tasks
         /\ sent' = {}
         /\ ret' = [NoRet EXCEPT !.op = t.method, !.ok = FALSE,
                                 !.client_id = t.exclude_client]
    ELSE LET r == IterRun(main_manager, t.di_pos, t.len, t.method, t.exclude_client)
         IN  IF r.kind = "send"
             THEN LET entry == main_manager[r.pos - 1]
                      m == SendRecord("main", entry, PayloadOf(t.method))
                      t2 == [t EXCEPT !.di_pos = r.pos, !.len = r.len,
                                      !.attempted = @ \cup {entry.client_id},
                                      !.failed = IF m.delivered THEN @
                                                 ELSE @ \cup {entry.client_id}]
                  IN  /\ sent' = {m}
                      /\ IF LoopGoesOn(m.delivered)
                         THEN /\ tasks' = IF i \in DOMAIN tasks
                                          THEN [tasks EXCEPT ![i] = t2]
                                          ELSE Append(tasks, t2)
                              /\ ret' = NoRet
                         ELSE /\ tasks' = IF i \in DOMAIN tasks
                                          THEN RemoveAt(tasks, i) ELSE tasks
                              /\ ret' = [NoRet EXCEPT !.op = t.method, !.ok = FALSE,
                                                      !.client_id = t.exclude_client]
             ELSE /\ tasks' = IF i \in DOMAIN tasks THEN RemoveAt(tasks, i) ELSE tasks
                  /\ sent' = {}
                  /\ ret' = [NoRet EXCEPT !.op = t.method,
                                          !.ok = (r.kind = "stop"),
                                          !.client_id = t.exclude_client]

\* a call of a broadcast begins.  attempted, failed, stayed and undisturbed
\* are the call's history: whom it has sent to, which of these sends failed,
\* which clients have been registered since the call began, and whether the
\* registry is still as it was when the call began.
NewTask(method, exclude_client) ==
    [method |-> method,
     exclude_client |-> exclude_client,
     di_used |-> Cardinality(Keys(main_manager)),
     di_pos |-> 1,
     len |-> Cardinality(Keys(main_manager)),
     attempted |-> {},
     failed |-> {},
     stayed |-> Keys(main_manager),
     undisturbed |-> TRUE]

\* manager.broadcast_to_agents(message, exclude_client) is called: the loop
\* begins and runs to its first send
broadcast_to_agents(exclude_client) ==
    /\ Len(tasks) < MaxTasks
    /\ BroadcastRun(NewTask("broadcast_to_agents", exclude_client), Len(tasks) + 1)
    /\ UNCHANGED <<customers, conversations, messages, users, business_hours,
                   clock, jobs, main_manager, ws_manager, sockets>>

\* manager.broadcast(message) is called: the loop begins and runs to its
\* first send
broadcast ==
    /\ Len(tasks) < MaxTasks
    /\ BroadcastRun(NewTask("broadcast", NoClient), Len(tasks) + 1)
    /\ UNCHANGED <<customers, conversations, messages, users, business_hours,
                   clock, jobs, main_manager, ws_manager, sockets>>

\* the send the i-th broadcast awaited returns: its loop goes on
BroadcastResume(i) ==
    /\ i \in DOMAIN tasks
    /\ BroadcastRun(tasks[i], i)
    /\ UNCHANGED <<customers, conversations, messages, users, business_hours,
                   clock, jobs, main_manager, ws_manager, sockets>>

----------------------------------------------------------------------------
(* The specification of the inbound pipeline *)

InitUsers ==
    [a \in Agents |->
        [role |-> "agent", is_active |-> TRUE, status |-> "offline",
         auto_assign |-> TRUE, max_concurrent_chats |-> a]]

Init ==
    /\ customers = <<>>
    /\ conversations = <<>>
    /\ messages = <<>>
    /\ users = InitUsers
    /\ business_hours = {}
    /\ clock = 0
    /\ jobs = {}
    /\ main_manager = <<>>
    /\ ws_manager = <<>>
    /\ sockets = [s \in Sockets |-> ClosedSocket]
    /\ tasks = <<>>
    /\ sent = {}
    /\ ret = NoRet

Next ==
    \/ \E p \in WebhookPlatforms, e \in ExternalIds, n \in Names,
          t \in Texts, d \in Days, tod \in TimesOfDay :
            WebhookStart(p, e, n, t, d, tod)
    \/ \E j \in jobs, r \in OllamaResponses : WebhookAi(j, r)
    \/ \E p \in WebhookPlatforms, e \in ExternalIds, t \in Texts : WebhookSkip(p, e, t)
    \/ \E e \in ExternalIds, n \in Names, t \in Texts : WidgetStart(e, n, t)
    \/ \E j \in jobs, r \in WidgetResponses : WidgetAi(j, r)
    \/ \E a \in Agents, s \in Statuses : update_agent_status(a, s)
    \/ \E c \in 1..MaxConversations, a \in Agents : connect_conversation(c, a)
    \/ \E c \in 1..MaxConversations : end_conversation(c)
    \/ \E e \in ExternalIds : kakao_leave(e)
    \/ \E e \in ExternalIds, p \in WebhookPlatforms \cup {"widget"}, n \in Names :
            create_customer(e, p, n)
    \/ WsConnect(1, <<"agent_", "1">>)
    \/ create_default_business_hours

Spec == Init /\ [][Next]_vars

----------------------------------------------------------------------------
(* The assignment service called on its own, beside the handlers that      *)
(* change what it reads                                                    *)

NextAssign ==
    \/ \E p \in AssignPlatforms, e \in ExternalIds, n \in Names,
          d \in Days, tod \in TimesOfDay :
            WebhookStart(p, e, n, <<"gyeyak">>, d, tod)
    \/ \E j \in jobs : WebhookAi(j, "")
    \/ \E a \in Agents, s \in Statuses : update_agent_status(a, s)
    \/ \E c \in 1..MaxConversations, a \in Agents : connect_conversation(c, a)
    \/ \E c \in 1..MaxConversations : end_conversation(c)
    \/ \E c \in 1..MaxConversations : AssignToConversation(c)
    \/ create_default_business_hours

SpecAssign == Init /\ [][NextAssign]_vars

----------------------------------------------------------------------------
(* The connection manager of main.py under every order of its calls *)

RegistryClients == AgentClients \cup WidgetClients

\* the exclude_client of the calls: an agent, or none
ExcludeClients == {<<"agent_", "1">>, NoClient}

NextRegistry ==
    \/ \E s \in Sockets, c \in RegistryClients : WsConnect(s, c)
    \/ \E s \in Sockets : WsBreak(s)
    \/ \E s \in Sockets : WsDisconnect(s)
    \/ \E c \in RegistryClients : send_personal_message(c)
    \/ \E x \in ExcludeClients : broadcast_to_agents(x)
    \/ \E i \in DOMAIN tasks : BroadcastResume(i)

SpecRegistry == Init /\ [][NextRegistry]_vars

\* the two broadcasts of the manager while clients come and go
NextBroadcast ==
    \/ \E s \in Sockets, c \in RegistryClients : WsConnect(s, c)
    \/ \E s \in Sockets : WsBreak(s)
    \/ \E s \in Sockets : WsDisconnect(s)
    \/ \E x \in ExcludeClients : broadcast_to_agents(x)
    \/ broadcast
    \/ \E i \in DOMAIN tasks : BroadcastResume(i)

SpecBroadcast == Init /\ [][NextBroadcast]_vars

----------------------------------------------------------------------------
(* The business hours service over the tables it may find *)

\* the rows a table may hold for a day: the hours of a working day or of a
\* day off, active or not
HoursRecords ==
    [day_of_week : Days, open_time : {<<9, 0>>}, close_time : {<<18, 0>>},
     is_active : BOOLEAN]
    \cup
    [day_of_week : Days, open_time : {<<0, 0>>}, close_time : {<<0, 0>>},
     is_active : BOOLEAN]

\* the tables with at most one row for a day
HoursTables ==
    {t \in SUBSET HoursRecords :
        \A r1, r2 \in t : r1.day_of_week = r2.day_of_week => r1 = r2}

\* BusinessHoursService.is_business_hours(db) is called on a day at a time
call_is_business_hours(current_day, current_time) ==
    /\ ret' = [op |-> "is_business_hours",
               ok |-> is_business_hours(business_hours, current_day, current_time),
               current_day |-> current_day,
               current_time |-> current_time]
    /\ sent' = {}
    /\ UNCHANGED <<customers, conversations, messages, users, business_hours,
                   clock, jobs, main_manager, ws_manager, sockets, tasks>>

InitHours ==
    /\ customers = <<>>
    /\ conversations = <<>>
    /\ messages = <<>>
    /\ users = InitUsers
    /\ business_hours \in HoursTables
    /\ clock = 0
    /\ jobs = {}
    /\ main_manager = <<>>
    /\ ws_manager = <<>>
    /\ sockets = [s \in Sockets |-> ClosedSocket]
    /\ tasks = <<>>
    /\ sent = {}
    /\ ret = NoRet

NextHours ==
    \/ \E d \in Days, t \in TimesOfDay : call_is_business_hours(d, t)
    \/ create_default_business_hours

SpecHours == InitHours /\ [][NextHours]_vars

----------------------------------------------------------------------------
(* The assignment service over the pools and the conversations it may find *)

\* the rows of table users for agent a: any role, activity, status and
\* auto_assign, a capacity of one or two chats
PoolUsers ==
    [Agents -> [role : {"agent", "admin"}, is_active : BOOLEAN,
                status : Statuses, auto_assign : BOOLEAN,
                max_concurrent_chats : {1, 2}]]

\* the conversations of a customer: open or closed, unassigned or assigned
\* to an agent at time 0, before the calls
PoolConversationRecords ==
    {[NewConversation(1, "kakao", "kim") EXCEPT
            !.assigned_agent_id = a,
            !.assigned_at = IF a = None THEN None ELSE 0,
            !.status = st] :
        a \in Agents \cup {None}, st \in {"open", "closed"}}

PoolConversations == [1..MaxConversations -> PoolConversationRecords]

\* AgentAssignmentService.get_available_agents(db) is called
call_get_available_agents ==
    /\ ret' = [op |-> "get_available_agents", ok |-> TRUE,
               result |-> get_available_agents(users, conversations)]
    /\ sent' = {}
    /\ UNCHANGED <<customers, conversations, messages, users, business_hours,
                   clock, jobs, main_manager, ws_manager, sockets, tasks>>

\* AgentAssignmentService.reassign_agent(db, conversation_id, new_agent_id)
\* is called
call_reassign_agent(conversation_id, new_agent_id) ==
    /\ clock < MaxClock
    /\ LET r == reassign_agent(users, conversations, conversation_id,
                               new_agent_id, clock + 1)
       IN  /\ conversations' = r.convs
           /\ ret' = [op |-> "reassign", ok |-> r.ok,
                      conversation_id |-> conversation_id,
                      new_agent_id |-> new_agent_id]
    /\ clock' = clock + 1
    /\ sent' = {}
    /\ UNCHANGED <<customers, messages, users, business_hours, jobs,
                   main_manager, ws_manager, sockets, tasks>>

InitPool ==
    /\ customers = <<[external_id |-> "u1", platform |-> "kakao", name |-> "kim"]>>
    /\ conversations \in PoolConversations
    /\ messages = <<>>
    /\ users \in PoolUsers
    /\ business_hours = {}
    /\ clock = 1
    /\ jobs = {}
    /\ main_manager = <<>>
    /\ ws_manager = <<>>
    /\ sockets = [s \in Sockets |-> ClosedSocket]
    /\ tasks = <<>>
    /\ sent = {}
    /\ ret = NoRet

NextPool ==
    \/ call_get_available_agents
    \/ \E c \in 1..(MaxConversations + 1) : AssignToConversation(c)
    \/ \E c \in 1..(MaxConversations + 1), a \in Agents \cup {Cardinality(Agents) + 1} :
            call_reassign_agent(c, a)

SpecPool == InitPool /\ [][NextPool]_vars

----------------------------------------------------------------------------
(* Properties of the assignment service, under SpecAssign *)

\* the open conversations assigned to agent a
OpenLoad(a) ==
    Cardinality({i \in DOMAIN conversations :
                    /\ conversations[i].assigned_agent_id = a
                    /\ conversations[i].status = "open"})

\* C1: whenever a step of automatic assignment gives a conversation an agent
\* (the conversation had none before, or is new), that agent had, just before
\* the step, strictly fewer open conversations assigned than the agent's
\* max_concurrent_chats.
C1_AssignsUnderCapacity ==
    [][\A k \in DOMAIN conversations' :
          LET a == conversations'[k].assigned_agent_id
          IN  (/\ a # None
               /\ k \in DOMAIN conversations => conversations[k].assigned_agent_id = None)
              => OpenLoad(a) < users[a].max_concurrent_chats]_vars

\* C1 happens: agent 1, whose capacity is 1, holds an open conversation, and
\* a conversation assigned after it went to agent 2
C1_Witness ==
    \E k1, k2 \in DOMAIN conversations :
        /\ conversations[k1].assigned_agent_id = 1
        /\ conversations[k1].status = "open"
        /\ conversations[k2].assigned_agent_id = 2
        /\ conversations[k2].assigned_at > conversations[k1].assigned_at

\* C6: a call of assign_agent_to_conversation on a conversation that already
\* has an agent returns success and leaves the conversation's agent, its
\* assignment timestamp and its status as they were.
C6_AssignIsIdempotent ==
    [][\A c \in DOMAIN conversations :
          (/\ ret'.op = "assign"
           /\ ret'.conversation_id = c
           /\ conversations[c].assigned_agent_id # None)
          => /\ ret'.ok
             /\ conversations'[c].assigned_agent_id = conversations[c].assigned_agent_id
             /\ conversations'[c].assigned_at = conversations[c].assigned_at
             /\ conversations'[c].status = conversations[c].status]_vars

\* C6 happens: the call just returned success on a conversation assigned at
\* an earlier time, whose agent has gone offline since
C6_Witness ==
    /\ ret.op = "assign"
    /\ ret.ok
    /\ ret.conversation_id \in DOMAIN conversations
    /\ LET conv == conversations[ret.conversation_id]
       IN  /\ conv.assigned_agent_id # None
           /\ conv.assigned_at < clock
           /\ users[conv.assigned_agent_id].status = "offline"

----------------------------------------------------------------------------
(* Properties of the inbound pipeline, under Spec *)

\* the inbound messages whose processing a step finishes: the request that
\* awaited the AI generator returns, or a request runs to its end unsuspended
FinishedInbound(mid) ==
    \/ \E j \in jobs \ jobs' : j.message_id = mid
    \/ /\ mid \notin DOMAIN messages
       /\ messages'[mid].sender_type = "customer"
       /\ jobs' = jobs

\* C2: an inbound message that contains one of the complex keywords never
\* gets an automatic-response decision of true (its request never goes on to
\* the AI generator), and no bot message is stored for it.
C2_ComplexNeverAutoResponds ==
    [][/\ \A j \in jobs' \ jobs :
            j.path = "webhook"
            => ~ContainsAny(messages'[j.message_id].content, complex_keywords)
       /\ \A j \in jobs \ jobs' :
            (/\ j.path = "webhook"
             /\ ContainsAny(messages[j.message_id].content, complex_keywords))
            => messages' = messages]_vars

\* C3: an inbound message whose text is empty or only whitespace leaves the
\* customers, conversations and messages as they were and sends nothing, on
\* the webhook path and on the widget path.
C3_BlankInboundIgnored ==
    [][\A e \in ExternalIds, n \in Names, t \in Texts :
          (/\ IsBlank(t)
           /\ \/ WidgetStart(e, n, t)
              \/ \E p \in WebhookPlatforms : WebhookStore(p, e, n, t))
          => /\ UNCHANGED dbVars
             /\ sent' = {}]_vars

\* C4: an inbound message is never appended to a conversation that was
\* closed; it goes to the customer's open conversation on the channel when
\* there is one, and a conversation created for it is open.
C4_NeverAppendsToClosed ==
    [][\A m \in (DOMAIN messages') \ (DOMAIN messages) :
          messages'[m].sender_type = "customer"
          => LET k == messages'[m].conversation_id
             IN  /\ k \in DOMAIN conversations
                      => conversations[k].status # "closed"
                 /\ k \notin DOMAIN conversations
                      => conversations'[k].status = "open"
                 /\ \A i \in DOMAIN conversations :
                      (/\ conversations[i].status = "open"
                       /\ conversations[i].customer_id = conversations'[k].customer_id
                       /\ conversations[i].channel_type = conversations'[k].channel_type)
                      => /\ k \in DOMAIN conversations
                         /\ conversations[k].status = "open"]_vars

\* C5: no two customer records share (external_id, platform), whatever the
\* interleaving of the requests; an inbound message of an identity that has a
\* record adds no record, and its message goes to a conversation of that
\* record.
C5_OneCustomerPerIdentity ==
    [][/\ \A i, j \in DOMAIN customers' :
            (/\ customers'[i].external_id = customers'[j].external_id
             /\ customers'[i].platform = customers'[j].platform) => i = j
       /\ \A e \in ExternalIds, n \in Names, t \in Texts,
             p \in WebhookPlatforms \cup {"widget"} :
            (\/ p = "widget" /\ WidgetStart(e, n, t)
             \/ p # "widget" /\ WebhookStore(p, e, n, t))
            => LET k == messages'[Len(messages')].conversation_id
                   c == conversations'[k].customer_id
               IN  /\ customers'[c].external_id = e
                   /\ customers'[c].platform = p
                   /\ (\E i \in DOMAIN customers :
                          /\ customers[i].external_id = e
                          /\ customers[i].platform = p)
                      => /\ Len(customers') = Len(customers)
                         /\ c \in DOMAIN customers
                         /\ customers[c].external_id = e
                         /\ customers[c].platform = p]_vars

\* C5 happens: two requests of one customer are in flight at once, each
\* suspended at its await, after the first of them created the customer
C5_Witness ==
    \E j1, j2 \in jobs :
        /\ j1.message_id < j2.message_id
        /\ j1.path = "webhook" /\ j2.path = "webhook"
        /\ conversations[j1.conversation_id].customer_id
              = conversations[j2.conversation_id].customer_id
        /\ \E i \in DOMAIN customers : customers[i].platform = "widget"

\* C7: when the processing of an inbound message finishes, every agent
\* client registered through the agent endpoint at that moment is sent one
\* new_customer_message event for it.
C7_RegisteredAgentsNotified ==
    [][\A mid \in DOMAIN messages' :
          FinishedInbound(mid)
          => \A c \in RegisteredAgents :
                Cardinality({m \in sent' :
                                /\ m.client_id = c
                                /\ m.payload.type = "new_customer_message"
                                /\ m.payload.message_id = mid}) = 1]_vars

----------------------------------------------------------------------------
(* Properties of the connection manager, under SpecRegistry *)

\* C8: send_personal_message to a registered client whose channel is closed
\* or broken does not raise to its caller.
C8_SendToOneAbsorbsFailure ==
    (/\ ret.op = "send_personal_message"
     /\ ret.client_id \in Keys(main_manager)
     /\ sockets[Lookup(main_manager, ret.client_id)].state # "open")
    => ret.ok

\* C9: send_personal_message to a client id that is not registered sends
\* nothing, does not raise, and leaves the registry as it was.
C9_SendToUnregisteredIsNoOp ==
    [][(/\ ret'.op = "send_personal_message"
        /\ ret'.client_id \notin Keys(main_manager))
       => /\ ret'.ok
          /\ sent' = {}
          /\ main_manager' = main_manager]_vars

\* C9 happens: the call just returned for a client that is not registered,
\* while another client is
C9_Witness ==
    /\ ret.op = "send_personal_message"
    /\ ret.client_id \notin Keys(main_manager)
    /\ Keys(main_manager) # {}

\* the registered clients a broadcast to agents that excludes x is for
Eligible(x) ==
    {c \in Keys(main_manager) : c[1] = "agent_" /\ c # x}

\* C10: a broadcast to agents sends only to registered clients whose id
\* starts with "agent_" and differs from the excluded id, never to another
\* client; and when the registry stayed as it was during the broadcast, the
\* clients it sent to are exactly those.
C10_BroadcastToAgentsRecipients ==
    [][/\ ret'.op \notin {"send_personal_message", "broadcast"}
            => \A m \in sent' :
                  m.payload = Payload
                  => /\ m.client_id[1] = "agent_"
                     /\ m.client_id \in Keys(main_manager)
                     /\ \E i \in DOMAIN tasks' :
                           /\ tasks'[i].method = "broadcast_to_agents"
                           /\ m.client_id \in tasks'[i].attempted
                           /\ m.client_id # tasks'[i].exclude_client
       /\ \A i \in DOMAIN tasks' :
            tasks'[i].method = "broadcast_to_agents"
            => \A c \in tasks'[i].attempted :
                  c[1] = "agent_" /\ c # tasks'[i].exclude_client
       /\ \A i \in DOMAIN tasks :
            (/\ tasks' = RemoveAt(tasks, i)
             /\ ret'.op = "broadcast_to_agents"
             /\ ret'.ok
             /\ tasks[i].undisturbed)
            => tasks[i].attempted = Eligible(tasks[i].exclude_client)
       /\ (/\ tasks' = tasks
           /\ ret'.op = "broadcast_to_agents"
           /\ ret'.ok)
          => Eligible(ret'.client_id) = {}]_vars

\* C10 happens: with both agents and the widget registered, a broadcast that
\* excludes agent 1 has gone over all three entries and has just sent to
\* agent 2 alone
C10_Witness ==
    \E i \in DOMAIN tasks :
        /\ tasks[i].undisturbed
        /\ tasks[i].method = "broadcast_to_agents"
        /\ tasks[i].exclude_client = <<"agent_", "1">>
        /\ tasks[i].len = 0
        /\ tasks[i].attempted = {<<"agent_", "2">>}
        /\ Keys(main_manager) = RegistryClients
        /\ \E m \in sent : m.client_id = <<"agent_", "2">> /\ m.delivered

\* the clients among cs a broadcast t is for
TargetsOf(t, cs) ==
    IF t.method = "broadcast" THEN cs
    ELSE {c \in cs : c[1] = "agent_" /\ c # t.exclude_client}

\* C11: a broadcast (to all, or to the agents) during which the registry is
\* not changed never raises, and when it returns it has attempted a send to
\* every registered client it is for, the sends that failed on a closed or
\* broken channel included: a failed send ends neither the loop nor the call.
C11_BroadcastIsolatesFailures ==
    [][/\ \A i \in DOMAIN tasks :
            (/\ tasks' = RemoveAt(tasks, i)
             /\ ret'.op = tasks[i].method
             /\ tasks[i].undisturbed)
            => /\ ret'.ok
               /\ tasks[i].failed \subseteq tasks[i].attempted
               /\ tasks[i].attempted = TargetsOf(tasks[i], Keys(main_manager))
       /\ (/\ tasks' = tasks
           /\ ret'.op \in {"broadcast", "broadcast_to_agents"})
          => ret'.ok]_vars

\* C11 happens: the send of a broadcast to agent 1 has failed, and the
\* broadcast has gone on and has just sent to agent 2
C11_Witness ==
    \E i \in DOMAIN tasks :
        /\ tasks[i].undisturbed
        /\ tasks[i].failed = {<<"agent_", "1">>}
        /\ <<"agent_", "2">> \in tasks[i].attempted
        /\ \E m \in sent : m.client_id = <<"agent_", "2">> /\ m.delivered

\* C12: a broadcast during which a client was registered or unregistered
\* returns without raising, having attempted a send to every client it is
\* for that was registered from its beginning to its end.
C12_BroadcastSurvivesRegistryChange ==
    [][\A i \in DOMAIN tasks :
            (/\ tasks' = RemoveAt(tasks, i)
             /\ ret'.op = tasks[i].method
             /\ ~tasks[i].undisturbed)
            => /\ ret'.ok
               /\ TargetsOf(tasks[i], tasks[i].stayed) \subseteq tasks[i].attempted]_vars

----------------------------------------------------------------------------
(* Properties of the business hours service, under SpecHours *)

\* the rows of the table for the day of the last call
RowsOfDay == {r \in business_hours : r.day_of_week = ret.current_day}

\* C13: when the table holds a row for the day of the call and the row is
\* inactive, is_business_hours answers closed (False) at any time of the
\* day, whatever the row's open_time and close_time.
C13_InactiveDayIsClosed ==
    (/\ ret.op = "is_business_hours"
     /\ RowsOfDay # {}
     /\ \A r \in RowsOfDay : ~r.is_active)
    => ~ret.ok

\* C14: when the table holds no row for the day of the call,
\* is_business_hours answers open (True) at any time of the day.
C14_NoRecordIsOpen ==
    (ret.op = "is_business_hours" /\ RowsOfDay = {}) => ret.ok

\* C14 happens: the call was made on a Saturday before nine with a table
\* that holds nothing for Saturdays but an active row for Mondays
C14_Witness ==
    /\ ret.op = "is_business_hours"
    /\ ret.current_day = 5
    /\ ret.current_time = 8 * 3600 + 59 * 60
    /\ RowsOfDay = {}
    /\ \E r \in business_hours : r.day_of_week = 0 /\ r.is_active
    /\ ret.ok

\* C15: when the row of the day of the call is active, is_business_hours
\* answers open exactly when open_time <= time of the call <= close_time:
\* open at open_time and at close_time, closed before the one and after the
\* other.
C15_OpenWithinHoursInclusive ==
    (/\ ret.op = "is_business_hours"
     /\ \E r \in RowsOfDay : r.is_active)
    => \A r \in RowsOfDay :
          ret.ok <=> /\ r.open_time[1] * 3600 + r.open_time[2] * 60 <= ret.current_time
                     /\ ret.current_time <= r.close_time[1] * 3600 + r.close_time[2] * 60

\* C15 happens: the call was made at 18:00:00 on a day whose active row
\* closes at 18:00, and the answer was open
C15_Witness ==
    /\ ret.op = "is_business_hours"
    /\ ret.current_time = 18 * 3600
    /\ \E r \in RowsOfDay : r.is_active /\ r.close_time = <<18, 0>>
    /\ ret.ok

----------------------------------------------------------------------------
(* Properties of the decision of the inbound pipeline, under Spec *)

\* C16: for an inbound message without a complex keyword,
\* process_incoming_message decides for an automatic response (and goes on
\* to the AI generator) exactly when is_business_hours answers closed, or it
\* answers open and get_available_agents is empty, or the message contains a
\* simple keyword; when none of the three holds the request ends with no AI
\* reply stored.
C16_AutoResponseDecision ==
    [][\A p \in WebhookPlatforms, e \in ExternalIds, n \in Names, t \in Texts,
         d \in Days, tod \in TimesOfDay :
          (/\ ~ContainsAny(t, complex_keywords)
           /\ Len(messages') > Len(messages)
           /\ messages'[Len(messages')].content = t
           /\ WebhookStart(p, e, n, t, d, tod))
          => LET closed == ~is_business_hours(business_hours, d, tod)
                 no_agent == get_available_agents(users, conversations') = <<>>
                 simple == ContainsAny(t, simple_keywords)
             IN  /\ (jobs' # jobs) <=> (closed \/ no_agent \/ simple)
                 /\ ~(closed \/ no_agent \/ simple)
                    => /\ Len(messages') = Len(messages) + 1
                       /\ messages'[Len(messages')].sender_type = "customer"]_vars

\* C16 happens: with no business hours set (open at any time) and agent 2
\* online and under capacity, a message without any keyword was stored and
\* assigned to agent 2, and no request went on to the AI generator
C16_Witness ==
    /\ business_hours = {}
    /\ Len(messages) = 1
    /\ messages[1].sender_type = "customer"
    /\ messages[1].content = <<Blank>>
    /\ conversations[messages[1].conversation_id].channel_type = "kakao"
    /\ conversations[messages[1].conversation_id].assigned_agent_id = 2
    /\ get_available_agents(users, conversations) # <<>>
    /\ jobs = {}
    /\ clock = 1

----------------------------------------------------------------------------
(* Properties of the assignment service, under SpecPool *)

\* the agents of the pool who can take a conversation
AvailableSet ==
    {a \in Agents :
        /\ users[a].role = "agent"
        /\ users[a].is_active
        /\ users[a].status = "online"
        /\ users[a].auto_assign
        /\ OpenLoad(a) < users[a].max_concurrent_chats}

\* C17: get_available_agents returns exactly the users with role agent,
\* active, online and with auto_assign whose count of assigned open
\* conversations is strictly below max_concurrent_chats, each once, with that
\* count as current_load and max_concurrent_chats as capacity, in ascending
\* order of current_load, agents of equal load in the order of the pool.
C17_AvailableAgentsExact ==
    ret.op = "get_available_agents"
    => LET r == ret.result
       IN  /\ {r[i].agent : i \in DOMAIN r} = AvailableSet
           /\ Len(r) = Cardinality(AvailableSet)
           /\ \A i \in DOMAIN r :
                 /\ r[i].current_load = OpenLoad(r[i].agent)
                 /\ r[i].capacity = users[r[i].agent].max_concurrent_chats
           /\ \A i, j \in DOMAIN r :
                 i < j => \/ r[i].current_load < r[j].current_load
                          \/ /\ r[i].current_load = r[j].current_load
                             /\ r[i].agent < r[j].agent

\* C17 happens: both agents are online with auto_assign, agent 1 holds one
\* open conversation of two allowed, agent 2 one of one, and the call
\* returned agent 1 alone
C17_Witness ==
    /\ ret.op = "get_available_agents"
    /\ \A a \in Agents :
          /\ users[a].role = "agent" /\ users[a].is_active
          /\ users[a].status = "online" /\ users[a].auto_assign
          /\ OpenLoad(a) = 1
    /\ users[1].max_concurrent_chats = 2
    /\ users[2].max_concurrent_chats = 1
    /\ ret.result = <<[agent |-> 1, current_load |-> 1, capacity |-> 2]>>

\* C18: reassign_agent on a conversation that exists and a user that exists
\* with role agent returns success and makes that user the conversation's
\* agent, whatever the user's load, status and auto_assign: being at or above
\* max_concurrent_chats does not stop it.
C18_ReassignIgnoresCapacity ==
    [][(/\ ret'.op = "reassign"
        /\ ret'.conversation_id \in DOMAIN conversations
        /\ ret'.new_agent_id \in Agents
        /\ users[ret'.new_agent_id].role = "agent")
       => /\ ret'.ok
          /\ conversations'[ret'.conversation_id].assigned_agent_id = ret'.new_agent_id
          /\ conversations'[ret'.conversation_id].assigned_at = clock'
          /\ \A c \in DOMAIN conversations :
                c # ret'.conversation_id => conversations'[c] = conversations[c]]_vars

\* C18 happens: the call returned success for an agent who is offline,
\* without auto_assign, and now holds more open conversations than
\* max_concurrent_chats
C18_Witness ==
    /\ ret.op = "reassign"
    /\ ret.ok
    /\ ret.new_agent_id \in Agents
    /\ conversations[ret.conversation_id].assigned_agent_id = ret.new_agent_id
    /\ conversations[ret.conversation_id].assigned_at = clock
    /\ users[ret.new_agent_id].status = "offline"
    /\ ~users[ret.new_agent_id].auto_assign
    /\ OpenLoad(ret.new_agent_id) > users[ret.new_agent_id].max_concurrent_chats

\* C19: assign_agent_to_conversation on a conversation without an agent, when
\* no agent is available, returns failure and leaves the conversation's
\* agent, assignment timestamp and status as they were; no request and no
\* task is left behind to assign it later.
C19_NoAgentLeavesUnassigned ==
    [][(/\ ret'.op = "assign"
        /\ ret'.conversation_id \in DOMAIN conversations
        /\ conversations[ret'.conversation_id].assigned_agent_id = None
        /\ AvailableSet = {})
       => /\ ~ret'.ok
          /\ conversations' = conversations
          /\ jobs' = jobs
          /\ tasks' = tasks
          /\ messages' = messages]_vars

\* C19 happens: the call returned failure on an unassigned conversation
\* while an agent was online with auto_assign, but at capacity
C19_Witness ==
    /\ ret.op = "assign"
    /\ ~ret.ok
    /\ ret.conversation_id \in DOMAIN conversations
    /\ conversations[ret.conversation_id].assigned_agent_id = None
    /\ AvailableSet = {}
    /\ \E a \in Agents :
          /\ users[a].role = "agent" /\ users[a].is_active
          /\ users[a].status = "online" /\ users[a].auto_assign
          /\ OpenLoad(a) = users[a].max_concurrent_chats

----------------------------------------------------------------------------
(* The replies of the agents, and the deletion of a conversation *)

\* db.add(message); db.commit() of a Message row.  The engine of database.py
\* is SQLite unless DATABASE_URL names another, and sets no foreign_keys
\* pragma: the insert checks that the conversation exists only on an engine
\* that enforces foreign keys (foreign_keys), where it raises when it does not
InsertMessage(msgs, convs, msg, foreign_keys) ==
    IF foreign_keys /\ ~ConversationExists(convs, msg.conversation_id)
    THEN [ok |-> FALSE, msgs |-> msgs]
    ELSE [ok |-> TRUE, msgs |-> Append(msgs, msg)]

AgentMessage(conversation_id, content, status) ==
    [conversation_id |-> conversation_id, sender_type |-> "agent",
     content |-> content, status |-> status]

ExternalChannels == {"kakao", "instagram", "facebook"}

\* how the call of a channel's send function ends in send_reply: it returns
\* after the delivery, it returns an error object (no credentials; for Kakao
\* also any failure of the request, which it catches), or it raises (a
\* failure of the request to Instagram or Facebook, of the credentials query)
DeliveryOutcomes == {"delivered", "error_returned", "raised"}

\* send_reply from its step 4 on (lines 120-157): the message, the broadcast
ReplyStore(conversation_id, content, foreign_keys) ==
    LET r == InsertMessage(messages, conversations,
                           AgentMessage(conversation_id, content, "sent"),
                           foreign_keys)
    IN  /\ Len(messages) < MaxMessages
        /\ messages' = r.msgs
        /\ sent' = IF r.ok
                   THEN BroadcastToAgentsSends("ws", ws_manager, NoClient,
                            [type |-> "agent_reply_sent",
                             conversation_id |-> conversation_id])
                   ELSE {}
        /\ ret' = [NoRet EXCEPT !.op = "send_reply", !.ok = r.ok,
                                !.conversation_id = conversation_id]

\* POST /api/reply up to the await of the channel's send function (lines
\* 27-105); a widget that is not registered is sent nothing, and the handler
\* goes on without an await
ReplyStart(conversation_id, content, foreign_keys) ==
    /\ ConversationExists(conversations, conversation_id)
    /\ conversations[conversation_id].customer_id \in DOMAIN customers
    /\ LET conv == conversations[conversation_id]
           widget_id == <<"widget_", customers[conv.customer_id].external_id>>
       IN  IF conv.channel_type = "widget" /\ widget_id \notin Keys(ws_manager)
           THEN /\ ReplyStore(conversation_id, content, foreign_keys)
                /\ UNCHANGED jobs
           ELSE /\ Cardinality(jobs) < NumJobs
                /\ jobs' = jobs \cup {Job("reply", conversation_id, Len(messages))}
                /\ UNCHANGED messages
                /\ sent' = {}
                /\ ret' = NoRet
    /\ UNCHANGED <<customers, conversations, users, business_hours, clock,
                   main_manager, ws_manager, sockets, tasks>>

\* POST /api/reply from the return of the channel's send function (lines
\* 107-157): what was raised is caught and answered with HTTP 500
ReplyEnd(j, content, outcome, foreign_keys) ==
    /\ j \in jobs /\ j.path = "reply"
    /\ IF outcome = "raised"
       THEN /\ UNCHANGED messages
            /\ sent' = {}
            /\ ret' = [NoRet EXCEPT !.op = "send_reply", !.ok = FALSE,
                                    !.conversation_id = j.conversation_id]
       ELSE ReplyStore(j.conversation_id, content, foreign_keys)
    /\ jobs' = jobs \ {j}
    /\ UNCHANGED <<customers, conversations, users, business_hours, clock,
                   main_manager, ws_manager, sockets, tasks>>

\* POST /upload/message-with-file without a file (lines 62-178).  The
\* channel's send function is called without its parameter db: the call
\* raises TypeError before anything is awaited, on each of the three external
\* channels; a widget conversation is sent nothing
send_message_with_file(conversation_id, content) ==
    /\ ConversationExists(conversations, conversation_id)
    /\ Len(messages) < MaxMessages
    /\ LET raised == conversations[conversation_id].channel_type \in ExternalChannels
       IN  messages' = Append(messages,
               AgentMessage(conversation_id, content,
                            IF raised THEN "failed" ELSE "sent"))
    /\ sent' = BroadcastToAgentsSends("ws", ws_manager, NoClient,
                   [type |-> "agent_reply_sent", conversation_id |-> conversation_id])
    /\ ret' = [NoRet EXCEPT !.op = "send_message_with_file", !.ok = TRUE,
                            !.conversation_id = conversation_id]
    /\ UNCHANGED <<customers, conversations, users, business_hours, clock, jobs,
                   main_manager, ws_manager, sockets, tasks>>

\* handle_agent_reply of main.py, called for an agent_reply frame on
\* /ws/agent: the message is stored for the conversation_id of the frame,
\* then the conversation is looked up for the send to its widget, then the
\* agents are told; whatever is raised is caught and printed
handle_agent_reply(conversation_id, content, foreign_keys) ==
    /\ conversation_id # None /\ Truthy(content)
    /\ Len(messages) < MaxMessages
    /\ LET r == InsertMessage(messages, conversations,
                              AgentMessage(conversation_id, content, "sent"),
                              foreign_keys)
           found == /\ ConversationExists(conversations, conversation_id)
                    /\ conversations[conversation_id].customer_id \in DOMAIN customers
           widget_id == <<"widget_",
                customers[conversations[conversation_id].customer_id].external_id>>
           personal == IF found /\ Registered(main_manager, widget_id)
                       THEN {SendRecord("main",
                                [client_id |-> widget_id,
                                 websocket |-> Lookup(main_manager, widget_id)],
                                [type |-> "agent_reply"])}
                       ELSE {}
           raised == \E m \in personal : ~m.delivered
       IN  /\ messages' = r.msgs
           /\ sent' = IF ~r.ok THEN {}
                      ELSE IF raised THEN personal
                      ELSE personal \cup
                           BroadcastToAgentsSends("main", main_manager, NoClient,
                               [type |-> "conversation_updated",
                                conversation_id |-> conversation_id])
           /\ ret' = [NoRet EXCEPT !.op = "handle_agent_reply",
                                   !.ok = r.ok /\ ~raised,
                                   !.conversation_id = conversation_id]
    /\ UNCHANGED <<customers, conversations, users, business_hours, clock, jobs,
                   main_manager, ws_manager, sockets, tasks>>

\* POST /api/messages/send of main.py: the message is stored for the
\* conversation_id of the body, then broadcast to every client
send_message(conversation_id, sender_type, content, foreign_keys) ==
    /\ Len(messages) < MaxMessages
    /\ LET r == InsertMessage(messages, conversations,
                              [conversation_id |-> conversation_id,
                               sender_type |-> sender_type, content |-> content,
                               status |-> "sent"],
                              foreign_keys)
       IN  /\ messages' = r.msgs
           /\ sent' = IF r.ok
                      THEN {SendRecord("main", main_manager[i], NewMessagePayload) :
                               i \in {k \in DOMAIN main_manager :
                                         main_manager[k] # Tombstone}}
                      ELSE {}
           /\ ret' = [NoRet EXCEPT !.op = "send_message", !.ok = r.ok,
                                   !.conversation_id = conversation_id]
    /\ UNCHANGED <<customers, conversations, users, business_hours, clock, jobs,
                   main_manager, ws_manager, sockets, tasks>>

\* DELETE /conversations/{id}: the messages of the conversation, then the
\* conversation
delete_conversation(conversation_id) ==
    /\ ConversationExists(conversations, conversation_id)
    /\ messages' = [i \in DOMAIN messages |->
                       IF messages[i].conversation_id = conversation_id
                       THEN DeletedMessage ELSE messages[i]]
    /\ conversations' = [conversations EXCEPT ![conversation_id] = DeletedConversation]
    /\ sent' = {}
    /\ ret' = NoRet
    /\ UNCHANGED <<customers, users, business_hours, clock, jobs, main_manager,
                   ws_manager, sockets, tasks>>

ReplyTexts == {<<"annyeong">>}

NextReplies ==
    \/ \E e \in ExternalIds, n \in Names :
            WebhookStart("kakao", e, n, <<"annyeong">>, 0, 9 * 3600)
    \/ \E j \in jobs : WebhookAi(j, "answer")
    \/ \E e \in ExternalIds, n \in Names : WidgetStart(e, n, <<"annyeong">>)
    \/ \E j \in jobs : WidgetAi(j, "None")
    \/ \E c \in 1..MaxConversations, t \in ReplyTexts, fk \in BOOLEAN :
            ReplyStart(c, t, fk)
    \/ \E j \in jobs, t \in ReplyTexts, o \in DeliveryOutcomes, fk \in BOOLEAN :
            ReplyEnd(j, t, o, fk)
    \/ \E c \in 1..MaxConversations, t \in ReplyTexts : send_message_with_file(c, t)
    \/ \E c \in 0..(MaxConversations + 1), t \in ReplyTexts \cup {<<>>},
          fk \in BOOLEAN :
            handle_agent_reply(c, t, fk)
    \/ \E c \in 1..(MaxConversations + 1), t \in ReplyTexts, fk \in BOOLEAN :
            send_message(c, "agent", t, fk)
    \/ \E c \in 1..MaxConversations : delete_conversation(c)
    \/ \E s \in {1, 3} : WsConnect(s, SocketClient(s))
    \/ \E s \in {1, 3} : WsBreak(s)

SpecReplies == Init /\ [][NextReplies]_vars

----------------------------------------------------------------------------
(* Clients that connect again under the id of a connection they still have *)

ReconnectClients == {<<"agent_", "1">>, <<"widget_", "u1">>}

NextReconnect ==
    \/ \E s \in Sockets, c \in ReconnectClients : WsAccept(s, c)
    \/ \E s \in Sockets : WsBreak(s)
    \/ \E s \in Sockets : WsDisconnect(s)
    \/ \E c \in ReconnectClients : send_personal_message(c)

SpecReconnect == Init /\ [][NextReconnect]_vars

----------------------------------------------------------------------------
(* Every inbound path beside the connects and the closes *)

NextInbound ==
    \/ \E p \in WebhookPlatforms, e \in ExternalIds, n \in Names, t \in Texts :
            WebhookStart(p, e, n, t, 0, 9 * 3600)
    \/ \E j \in jobs, r \in OllamaResponses : WebhookAi(j, r)
    \/ \E e \in ExternalIds, n \in Names, t \in Texts : WidgetStart(e, n, t)
    \/ \E j \in jobs, r \in WidgetResponses : WidgetAi(j, r)
    \/ \E c \in 1..(MaxConversations + 1), t \in Texts : chat_widget_message(c, t)
    \/ \E a \in Agents, s \in Statuses : update_agent_status(a, s)
    \/ \E c \in 1..MaxConversations, a \in Agents : connect_conversation(c, a)
    \/ \E c \in 1..MaxConversations : end_conversation(c)
    \/ \E e \in ExternalIds : kakao_leave(e)
    \/ \E e \in ExternalIds, p \in WebhookPlatforms \cup {"widget"}, n \in Names :
            create_customer(e, p, n)

SpecInbound == Init /\ [][NextInbound]_vars

----------------------------------------------------------------------------
(* Properties of the two inbound paths and of the conversations, under Spec *)

\* the customer messages of conversation k among msgs
CustomerMessages(msgs, k) ==
    {i \in DOMAIN msgs : msgs[i].conversation_id = k /\ msgs[i].sender_type = "customer"}

\* C21: when an inbound message creates a conversation, automatic assignment
\* is attempted at once (so the conversation gets an agent when one is
\* available), and whether or not it got one the customer message is
\* appended to it and its unread_count and last_message_at are updated.
C21_NewConversationAssignedAtOnce ==
    [][Len(conversations') = Len(conversations) + 1
       => LET k == Len(conversations')
          IN  /\ AvailableSet # {} => conversations'[k].assigned_agent_id # None
              /\ CustomerMessages(messages', k) # {}
              /\ conversations'[k].unread_count = 1
              /\ conversations'[k].last_message_at # None]_vars

\* C22: the status of a conversation changes only from open to connected,
\* from connected to closed or from open to closed; the status of a closed
\* conversation never changes.
C22_StatusTransitions ==
    [][\A k \in DOMAIN conversations :
          \/ conversations'[k].status = conversations[k].status
          \/ <<conversations[k].status, conversations'[k].status>> \in
                {<<"open", "connected">>, <<"connected", "closed">>,
                 <<"open", "closed">>}]_vars

\* C23: the unread_count of a conversation is the number of inbound customer
\* messages stored for it, on the webhooks and on the widget, and
\* last_message_at is set once it has one.
C23_UnreadCountsInbound ==
    \A k \in DOMAIN conversations :
        /\ conversations[k].unread_count = Cardinality(CustomerMessages(messages, k))
        /\ CustomerMessages(messages, k) # {} => conversations[k].last_message_at # None

\* C24: when the request went on to the AI generator and the generation
\* failed (the generator is unavailable, or its call raised), no bot message
\* is stored, ai_responded is false, and the request ends.
C24_FailedGenerationLeavesNoBotMessage ==
    [][\A j \in jobs :
          (WebhookAi(j, "error") \/ WidgetAi(j, "error"))
          => /\ messages' = messages
             /\ ~AiResponded("error")
             /\ j \notin jobs']_vars

\* C25: when the processing of an inbound message ends, ai_responded (in the
\* broadcast and in the result) is true exactly when a bot message was
\* stored for it.
C25_AiRespondedIffBotMessage ==
    [][\A j \in jobs, r \in OllamaResponses \cup WidgetResponses :
          (WebhookAi(j, r) \/ WidgetAi(j, r))
          => (AiResponded(r)
              <=> /\ Len(messages') = Len(messages) + 1
                  /\ messages'[Len(messages')].sender_type = "bot"
                  /\ messages'[Len(messages')].conversation_id = j.conversation_id)]_vars

\* the open conversations of customer c on channel ch
OpenOf(c, ch) ==
    {k \in DOMAIN conversations :
        /\ conversations[k].customer_id = c
        /\ conversations[k].channel_type = ch
        /\ conversations[k].status = "open"}

\* C26: in every reachable state a customer has at most one open
\* conversation on a channel, whatever inbound messages, connects and closes
\* came before.
C26_OneOpenConversation ==
    \A c \in DOMAIN customers, ch \in WebhookPlatforms \cup {"widget"} :
        Cardinality(OpenOf(c, ch)) <= 1

\* a customer got a second conversation on a channel after the first left
\* the status open, and wrote into it
C26_Witness ==
    \E k1, k2 \in DOMAIN conversations :
        /\ k1 < k2
        /\ conversations[k1].customer_id = conversations[k2].customer_id
        /\ conversations[k1].channel_type = conversations[k2].channel_type
        /\ conversations[k1].status \in {"closed", "connected"}
        /\ conversations[k2].status = "open"
        /\ CustomerMessages(messages, k1) # {}
        /\ CustomerMessages(messages, k2) # {}

----------------------------------------------------------------------------
(* Properties of the replies and of the stored messages, under SpecReplies *)

\* C27: when the channel's delivery of an agent's reply fails, the request
\* goes on: the agent message is stored for the conversation with status
\* failed, and the handler reaches its broadcast to the agents and its
\* return.
C27_FailedDeliveryKeepsMessage ==
    [][/\ \A j \in jobs, t \in ReplyTexts, fk \in BOOLEAN :
            (/\ ConversationExists(conversations, j.conversation_id)
             /\ ReplyEnd(j, t, "raised", fk))
            => /\ Len(messages') = Len(messages) + 1
               /\ messages'[Len(messages')] = AgentMessage(j.conversation_id, t, "failed")
               /\ ret'.ok
       /\ \A c \in DOMAIN conversations, t \in ReplyTexts :
            (/\ conversations[c].channel_type \in ExternalChannels
             /\ send_message_with_file(c, t))
            => /\ messages'[Len(messages')] = AgentMessage(c, t, "failed")
               /\ ret'.ok]_vars

\* C28: every stored message refers to a conversation that exists.
C28_MessageHasConversation ==
    \A i \in DOMAIN messages :
        messages[i] # DeletedMessage
        => ConversationExists(conversations, messages[i].conversation_id)

----------------------------------------------------------------------------
(* Properties of the registry under SpecReconnect *)

\* C29: when the endpoint of a connection detects its disconnection while
\* its client id is registered to a newer connection, the id stays
\* registered to that newer connection.
C29_OldDisconnectKeepsNewer ==
    [][\A s \in Sockets :
          (/\ sockets[s].state # "closed"
           /\ sockets'[s] = ClosedSocket
           /\ Lookup(main_manager, sockets[s].client_id) \notin {None, s})
          => Lookup(main_manager', sockets[s].client_id)
                = Lookup(main_manager, sockets[s].client_id)]_vars

----------------------------------------------------------------------------
(* Capacity of the agents under SpecAssign, where nothing reassigns *)

\* C30: while no conversation is reassigned by hand, no agent has more open
\* conversations assigned than max_concurrent_chats allows, in any reachable
\* state.
C30_AssignedWithinCapacity ==
    \A a \in Agents : OpenLoad(a) <= users[a].max_concurrent_chats

\* an agent is online with as many open conversations as it may have, and
\* an assignment just left another open conversation without an agent
C30_Witness ==
    \E a \in Agents, k \in DOMAIN conversations :
        /\ users[a].status = "online"
        /\ OpenLoad(a) = users[a].max_concurrent_chats
        /\ conversations[k].status = "open"
        /\ conversations[k].assigned_agent_id = None
        /\ ret.op = "assign" /\ ret.conversation_id = k /\ ~ret.ok

====
